---- MODULE Spec2Model ----
(***************************************************************************)
(* lbImageServer: one invocation of image_server.exe (golang-webserver/    *)
(* main.go), optionally wrapped by manage_service.bat.  The model follows  *)
(* one process from os.Args to exit: the install / remove commands acting  *)
(* on the service control manager (SCM) and the event-log registry, the    *)
(* debug command, and the service path main -> LoadConfig -> svc.Run ->    *)
(* Service.Execute with its listener goroutine.  The container build (the  *)
(* second main, with ServeFiles) is the run whose args is "container".     *)
(***************************************************************************)
EXTENDS Naturals, Sequences, FiniteSets

VARIABLES
    args,           \* os.Args[1]: "install" | "remove" | "debug" | "service";
                    \* "container": the process is the container build
    viaScript,      \* the command was issued through manage_service.bat
    mpc,            \* position of main (and of installService / removeService)
    cmdErr,         \* the error the command ended with ("" : none)
    cfgFile,        \* content of config.json beside the executable
    config,         \* *Config returned by LoadConfig (Nil before / on failure)
    server,         \* *http.Server built by createServer (Nil before)
    pc,             \* position of Service.Execute
    ret,            \* (ssec, errno) returned by Execute (Nil before)
    ctl,            \* control requests Execute has received from r, in order
    reported,       \* statuses the SCM has been given, in order
    lpc,            \* position of the listener goroutine
    lerr,           \* what ListenAndServe returned ("" : has not returned)
    isRunning,      \* Service.isRunning
    runningMux,     \* holder of Service.runningMux ("free" | "ctl" | "lis")
    errChan,        \* errChan: buffered channel of capacity 1
    listening,      \* the server's listener is bound and accepting
    listenCalled,   \* ListenAndServe has been called
    inShutdown,     \* server.Shutdown has been called
    shutdownCtx,    \* deadline (seconds) given to server.Shutdown (0: none)
    elog,           \* event-log / console entries written, in order
    services,       \* SCM: the registered services
    eventSrc,       \* registry: the event-log source ImageServer exists
    svcState,       \* SCM: current state of the registered ImageServer service
    status,         \* removeService: the last svc.Status it queried
    rhist,          \* removeService: what it has done so far
    scm0,           \* SCM and registry as they were when the command started
    env,            \* container: the environment variables PORT, IMAGE_FOLDER
    req,            \* the HTTP request being handled (Nil: none)
    resp,           \* the response to the request handled last (Nil: none yet)
    reqLog,         \* "Received request" lines written by log.Printf, in order
    hung            \* service path: a connection is in flight that never
                    \* becomes idle

vars == <<args, viaScript, mpc, cmdErr, cfgFile, config, server, pc, ret, ctl,
          reported, lpc, lerr, isRunning, runningMux, errChan, listening,
          listenCalled, inShutdown, shutdownCtx, elog, services, eventSrc,
          svcState, status, rhist, scm0, env, req, resp, reqLog, hung>>

mainVars == <<args, viaScript, mpc, cmdErr, cfgFile, config, server>>
execVars == <<pc, ret, ctl, reported>>
lisVars  == <<lpc, lerr, errChan, listening, listenCalled>>
lockVars == <<isRunning, runningMux>>
shutVars == <<inShutdown, shutdownCtx>>
scmVars  == <<services, eventSrc, svcState, status, rhist, scm0>>
webVars  == <<env, req, resp, reqLog, hung>>

Nil == [nil |-> TRUE]

\* log.Fatal(err): the process ends with status 1
Fatal(msg) ==
    /\ cmdErr' = msg
    /\ mpc' = "exited"

-----------------------------------------------------------------------------
(* Bounds of the model *)

\* control requests delivered to one Execute call
MaxRequests == 3
\* status polls removeService makes in its wait loop
MaxPolls == 3
\* HTTP requests the container's handler logs in one run
MaxHttp == 2

-----------------------------------------------------------------------------
(* Configuration: LoadConfig, createServer *)

ServiceName == "ImageServer"
ExePath == "C:/srv/image_server.exe"

\* JSON values a key of config.json can hold
JStr(s) == [kind |-> "string", val |-> s]
JNum == [kind |-> "number", val |-> ""]
JMissing == [kind |-> "missing", val |-> ""]

Ports == {"", "8089"}
Folders == {"", "C:/img", "C:/gone", "C:/locked"}

\* os.Stat on the folders of the modelled file system (of the Windows host,
\* and of the container)
Stat(folder) ==
    CASE folder \in {"C:/img", "/images", "/data"} -> "ok"
      [] folder \in {"C:/locked", "/locked"} -> "denied"
      [] OTHER -> "notexist"

Absent == [kind |-> "absent"]
Garbage == [kind |-> "garbage"]

ConfigFiles ==
    {Absent, Garbage} \cup
    [kind : {"json"},
     port : {JStr(p) : p \in Ports} \cup {JNum, JMissing},
     folder : {JStr(f) : f \in Folders} \cup {JNum, JMissing}]

\* json.Decoder.Decode into Config{Port string; Folder string}
DecodeField(v) ==
    CASE v.kind = "string" -> [ok |-> TRUE, val |-> v.val]
      [] v.kind = "missing" -> [ok |-> TRUE, val |-> ""]
      [] OTHER -> [ok |-> FALSE, val |-> ""]

Decode(file) ==
    IF file = Garbage THEN [ok |-> FALSE, cfg |-> Nil]
    ELSE LET p == DecodeField(file.port)
             f == DecodeField(file.folder)
         IN IF p.ok /\ f.ok
            THEN [ok |-> TRUE, cfg |-> [Port |-> p.val, Folder |-> f.val]]
            ELSE [ok |-> FALSE, cfg |-> Nil]

\* mutant: LoadConfig does not look at the folder
MutFolderRejected(folder) == FALSE

\* the folder check of LoadConfig: os.IsNotExist(err) of os.Stat
FolderRejected(folder) == Stat(folder) = "notexist"

Fail(msg) == [cfg |-> Nil, err |-> msg]

LoadConfig(file) ==
    IF file = Absent THEN Fail("failed to open config file")
    ELSE LET d == Decode(file)
         IN IF ~d.ok THEN Fail("failed to decode config")
            ELSE IF d.cfg.Port = "" THEN Fail("port cannot be empty")
            ELSE IF d.cfg.Folder = "" THEN Fail("folder cannot be empty")
            ELSE IF FolderRejected(d.cfg.Folder) THEN Fail("folder does not exist")
            ELSE [cfg |-> d.cfg, err |-> ""]

createServer(c) ==
    [Addr |-> <<":", c.Port>>, Root |-> c.Folder,
     ReadTimeout |-> 15, WriteTimeout |-> 15, IdleTimeout |-> 60]

-----------------------------------------------------------------------------
(* Service statuses *)

\* mutant: the statuses also declare Pause as accepted
MutCmdsAccepted == {"Stop", "Shutdown", "Pause"}

\* const cmdsAccepted = svc.AcceptStop | svc.AcceptShutdown
cmdsAccepted == {"Stop", "Shutdown"}

\* svc.Status{State, Accepts, WaitHint}; ExitCode is the exit code the SCM is
\* given with the status (zero unless set)
SvcStatus(state, accepts, hint, code) ==
    [State |-> state, Accepts |-> accepts, WaitHint |-> hint, ExitCode |-> code]

StartPendingStatus == SvcStatus("StartPending", cmdsAccepted, 10000, 0)
RunningStatus == SvcStatus("Running", cmdsAccepted, 0, 0)
\* mutant: the Stop branch reports a Running status in place of StopPending
MutStopPendingStatus == SvcStatus("Running", cmdsAccepted, 10000, 0)

StopPendingStatus == SvcStatus("StopPending", cmdsAccepted, 10000, 0)
\* what svc.Run tells the SCM once Execute has returned (ssec, errno)
StoppedStatus(errno) == SvcStatus("Stopped", {}, 0, errno)

Cmds == {"Interrogate", "Stop", "Shutdown", "Pause"}

States(seq) == [i \in 1..Len(seq) |-> seq[i].State]
Last(seq) == seq[Len(seq)]

-----------------------------------------------------------------------------
(* Service.Execute: the control loop *)

\* the request the svc dispatcher hands to Execute on r: the control, and the
\* status the dispatcher last received on changes
ChangeRequest(cmd) == [Cmd |-> cmd, CurrentStatus |-> Last(reported)]

\* mutant: Interrogate is answered with a status built afresh
MutInterrogateReply(c) == StartPendingStatus

\* case svc.Interrogate: changes <- c.CurrentStatus
InterrogateReply(c) == c.CurrentStatus

\* mutant: the Stop branch clears isRunning without taking runningMux
MutControlNextPc(cmd) == IF cmd \in {"Stop", "Shutdown"} THEN "stop_set" ELSE "loop"

\* where the control loop goes after a request
ControlNextPc(cmd) == IF cmd \in {"Stop", "Shutdown"} THEN "stop_lock" ELSE "loop"

\* context.WithTimeout(ctx, 5*time.Second)
ShutdownTimeout == 5

\* mutant: a failed Shutdown puts the service back to Running
MutShutdownFailedReports == <<RunningStatus>>

\* the statuses sent when server.Shutdown returns an error: none, it is logged
ShutdownFailedReports == << >>

\* return false, 0 after Stop / Shutdown
StopExitCode == 0

\* mutant: the error branch returns success
MutErrorExitCode == StopExitCode

\* return false, 1 after a listener error
ErrorExitCode == 1

\* changes <- StartPending; elog.Info; errChan := make(chan error, 1)
ExecuteStart ==
    /\ pc = "start"
    /\ reported' = Append(reported, StartPendingStatus)
    /\ elog' = Append(elog, "Service Execute started")
    /\ pc' = "spawn"
    /\ UNCHANGED <<ret, ctl, mainVars, lisVars, lockVars, shutVars, scmVars>>
    /\ UNCHANGED webVars

\* go func() {...}()
ExecuteSpawn ==
    /\ pc = "spawn"
    /\ pc' = "sleep"
    /\ lpc' = "l_lock"
    /\ UNCHANGED <<ret, ctl, reported, lerr, errChan, listening, listenCalled,
                   elog, mainVars, lockVars, shutVars, scmVars>>
    /\ UNCHANGED webVars

\* time.Sleep(1 * time.Second); changes <- Running; elog.Info
ExecuteRunning ==
    /\ pc = "sleep"
    /\ reported' = Append(reported, RunningStatus)
    /\ elog' = Append(elog, "Service status set to running")
    /\ pc' = "loop"
    /\ UNCHANGED <<ret, ctl, mainVars, lisVars, lockVars, shutVars, scmVars>>
    /\ UNCHANGED webVars

\* case err := <-errChan: elog.Error; return false, 1
ExecuteRecvErr ==
    /\ pc = "loop"
    /\ errChan # << >>
    /\ errChan' = Tail(errChan)
    /\ elog' = Append(elog, "Server error")
    /\ ret' = [ssec |-> FALSE, errno |-> ErrorExitCode]
    /\ reported' = Append(reported, StoppedStatus(ErrorExitCode))
    /\ pc' = "returned"
    /\ UNCHANGED <<ctl, lpc, lerr, listening, listenCalled, mainVars, lockVars,
                   shutVars, scmVars>>
    /\ UNCHANGED webVars

\* case c := <-r: switch c.Cmd
ExecuteControl ==
    /\ pc = "loop"
    /\ Len(ctl) < MaxRequests
    /\ \E cmd \in Cmds :
         LET c == ChangeRequest(cmd) IN
         /\ ctl' = Append(ctl, cmd)
         /\ CASE cmd = "Interrogate" ->
                   /\ elog' = Append(elog, "Service interrogate received")
                   /\ reported' = Append(reported, InterrogateReply(c))
                   /\ shutdownCtx' = shutdownCtx
              [] cmd \in {"Stop", "Shutdown"} ->
                   /\ elog' = Append(elog, "Service stop/shutdown received")
                   /\ reported' = Append(reported, StopPendingStatus)
                   /\ shutdownCtx' = ShutdownTimeout
              [] OTHER ->
                   /\ elog' = Append(elog, "Unexpected control request")
                   /\ UNCHANGED <<reported, shutdownCtx>>
         /\ pc' = ControlNextPc(cmd)
    /\ UNCHANGED <<ret, inShutdown, mainVars, lisVars, lockVars, scmVars>>
    /\ UNCHANGED webVars

\* s.runningMux.Lock()
ExecuteStopLock ==
    /\ pc = "stop_lock"
    /\ runningMux = "free"
    /\ runningMux' = "ctl"
    /\ pc' = "stop_set"
    /\ UNCHANGED <<ret, ctl, reported, isRunning, elog, mainVars, lisVars,
                   shutVars, scmVars>>
    /\ UNCHANGED webVars

\* s.isRunning = false
ExecuteStopSet ==
    /\ pc = "stop_set"
    /\ isRunning' = FALSE
    /\ pc' = "stop_unlock"
    /\ UNCHANGED <<ret, ctl, reported, runningMux, elog, mainVars, lisVars,
                   shutVars, scmVars>>
    /\ UNCHANGED webVars

\* s.runningMux.Unlock()
ExecuteStopUnlock ==
    /\ pc = "stop_unlock"
    /\ runningMux' = "free"
    /\ pc' = "shutdown"
    /\ UNCHANGED <<ret, ctl, reported, isRunning, elog, mainVars, lisVars,
                   shutVars, scmVars>>
    /\ UNCHANGED webVars

\* mutant: Shutdown is given a context without deadline
MutShutdownReturns(inflight, deadline) == ~inflight

\* server.Shutdown(shutdownCtx) returns when no connection is in flight any
\* more, or when the deadline of shutdownCtx has passed
ShutdownReturns(inflight, deadline) == inflight => deadline > 0

\* s.server.Shutdown(shutdownCtx): closes the listener, then waits for the
\* connections in flight until they are idle (nil) or the deadline passes (an
\* error, which is logged); elog.Info; return false, 0
ExecuteShutdown ==
    /\ pc = "shutdown"
    /\ ShutdownReturns(hung, shutdownCtx)
    /\ inShutdown' = TRUE
    /\ listening' = FALSE
    /\ \E expired \in {hung} :
         IF expired
         THEN /\ elog' = elog \o <<"Error during shutdown", "Service stopped successfully">>
              /\ reported' = reported \o ShutdownFailedReports \o <<StoppedStatus(StopExitCode)>>
         ELSE /\ elog' = Append(elog, "Service stopped successfully")
              /\ reported' = Append(reported, StoppedStatus(StopExitCode))
    /\ ret' = [ssec |-> FALSE, errno |-> StopExitCode]
    /\ pc' = "returned"
    /\ UNCHANGED <<ctl, lpc, lerr, errChan, listenCalled, shutdownCtx, mainVars,
                   lockVars, scmVars>>
    /\ UNCHANGED webVars

-----------------------------------------------------------------------------
(* Service.Execute: the listener goroutine *)

\* elog.Info("Starting HTTP server ..."); s.runningMux.Lock()
ListenerLock ==
    /\ lpc = "l_lock"
    /\ mpc # "exited"
    /\ runningMux = "free"
    /\ runningMux' = "lis"
    /\ elog' = Append(elog, "Starting HTTP server")
    /\ lpc' = "l_set"
    /\ UNCHANGED <<lerr, errChan, listening, listenCalled, isRunning, mainVars,
                   execVars, shutVars, scmVars>>
    /\ UNCHANGED webVars

\* s.isRunning = true
ListenerSet ==
    /\ lpc = "l_set"
    /\ mpc # "exited"
    /\ isRunning' = TRUE
    /\ lpc' = "l_unlock"
    /\ UNCHANGED <<lerr, errChan, listening, listenCalled, runningMux, elog,
                   mainVars, execVars, shutVars, scmVars>>
    /\ UNCHANGED webVars

\* s.runningMux.Unlock()
ListenerUnlock ==
    /\ lpc = "l_unlock"
    /\ mpc # "exited"
    /\ runningMux' = "free"
    /\ lpc' = "l_listen"
    /\ UNCHANGED <<lerr, errChan, listening, listenCalled, isRunning, elog,
                   mainVars, execVars, shutVars, scmVars>>
    /\ UNCHANGED webVars

\* s.server.ListenAndServe() is entered: ErrServerClosed at once when the
\* server is already shut down, an error when the port cannot be bound, else
\* the listener is bound and serves
ListenerListen ==
    /\ lpc = "l_listen"
    /\ mpc # "exited"
    /\ listenCalled' = TRUE
    /\ IF inShutdown
       THEN /\ lerr' = "ErrServerClosed"
            /\ lpc' = "l_returned"
            /\ UNCHANGED listening
       ELSE \/ /\ lerr' = "bind"
               /\ lpc' = "l_returned"
               /\ UNCHANGED listening
            \/ /\ listening' = TRUE
               /\ lpc' = "l_serving"
               /\ UNCHANGED lerr
    /\ UNCHANGED <<errChan, elog, mainVars, execVars, lockVars, shutVars, scmVars>>
    /\ UNCHANGED webVars

\* s.server.ListenAndServe() returns: ErrServerClosed once Shutdown has closed
\* the listener, or the error of a failed Accept
ListenerServe ==
    /\ lpc = "l_serving"
    /\ mpc # "exited"
    /\ IF inShutdown
       THEN /\ lerr' = "ErrServerClosed"
            /\ UNCHANGED listening
       ELSE /\ lerr' = "accept"
            /\ listening' = FALSE
    /\ lpc' = "l_returned"
    /\ UNCHANGED <<errChan, listenCalled, elog, mainVars, execVars, lockVars,
                   shutVars, scmVars>>
    /\ UNCHANGED webVars

\* mutant: whatever ListenAndServe returned is sent
MutSendsError(err) == TRUE

\* err != http.ErrServerClosed
SendsError(err) == err # "ErrServerClosed"

\* if err != http.ErrServerClosed { elog.Error; errChan <- err }
ListenerReturned ==
    /\ lpc = "l_returned"
    /\ mpc # "exited"
    /\ IF SendsError(lerr)
       THEN /\ Len(errChan) < 1
            /\ errChan' = Append(errChan, lerr)
            /\ elog' = Append(elog, "HTTP server error")
       ELSE UNCHANGED <<errChan, elog>>
    /\ lpc' = "l_done"
    /\ UNCHANGED <<lerr, listening, listenCalled, mainVars, execVars, lockVars,
                   shutVars, scmVars>>
    /\ UNCHANGED webVars

\* a client of the service's listener opens a connection and never finishes
\* its request: the connection stays active for ever
ConnHangs ==
    /\ args = "service"
    /\ listening /\ mpc # "exited"
    /\ ~hung
    /\ hung' = TRUE
    /\ UNCHANGED <<env, req, resp, reqLog, elog, mainVars, execVars, lisVars,
                   lockVars, shutVars, scmVars>>

-----------------------------------------------------------------------------
(* The static file responder: http.FileServer(http.Dir(folder)), installed *)
(* on "/" by createServer and, behind a logging handler, by ServeFiles     *)

Methods == {"GET", "HEAD"}

\* request paths, as their segments: /cover.png, /index.html, /missing.png,
\* /locked.png, /sub, /sub/index.html
Paths == {<<"cover.png">>, <<"index.html">>, <<"missing.png">>,
          <<"locked.png">>, <<"sub">>, <<"sub", "index.html">>}

File(bytes, readable) == [kind |-> "file", readable |-> readable, bytes |-> bytes]
Dir(readable) == [kind |-> "dir", readable |-> readable, bytes |-> ""]
NotExist == [kind |-> "notexist", readable |-> FALSE, bytes |-> ""]

\* what is at <root>/<path> in the modelled file system: every served folder
\* holds cover.png, index.html, locked.png (not readable by the process) and
\* the directory sub
Node(root, path) ==
    IF Stat(root) = "notexist" THEN NotExist
    ELSE CASE path = <<"cover.png">> -> File("cover-png-bytes", TRUE)
           [] path = <<"index.html">> -> File("index-html-bytes", TRUE)
           [] path = <<"locked.png">> -> File("locked-png-bytes", FALSE)
           [] path = <<"sub">> -> Dir(TRUE)
           [] OTHER -> NotExist

\* http.Dir(root).Open(path): under a folder the process may not enter every
\* open is refused
Open(root, path) ==
    LET n == Node(root, path) IN
    IF Stat(root) = "denied" THEN "permission"
    ELSE IF n.kind = "notexist" THEN "notexist"
    ELSE IF ~n.readable THEN "permission"
    ELSE "ok"

Response(code, location, body) ==
    [status |-> code, location |-> location, body |-> body]

\* mutant: the responder answers 200 with an empty body where nothing is found
MutFileServer(root, r) ==
    LET n == Node(root, r.path) IN
    IF n.kind = "file" /\ Open(root, r.path) = "ok" /\ r.method = "GET"
    THEN Response(200, "", n.bytes)
    ELSE Response(200, "", "")

\* http.FileServer(http.Dir(root)).ServeHTTP(w, r): a path ending in
\* /index.html is redirected to its directory before anything is opened; a
\* file that cannot be opened gives 404 (not there) or 403 (permission); a
\* directory asked for without the trailing slash is redirected; a regular
\* file is sent with 200.  A HEAD request gets the same answer without body.
FileServer(root, r) ==
    LET n == Node(root, r.path)
        body(b) == IF r.method = "HEAD" THEN "" ELSE b
        err == Open(root, r.path)
    IN IF Last(r.path) = "index.html" THEN Response(301, "./", "")
       ELSE IF err = "notexist" THEN Response(404, "", body("404 page not found"))
       ELSE IF err = "permission" THEN Response(403, "", body("403 Forbidden"))
       ELSE IF n.kind = "dir" THEN Response(301, "sub/", "")
       ELSE Response(200, "", body(n.bytes))

\* the process is serving in the foreground: debug, or the container
Serving == listening /\ mpc \in {"debug_serving", "c_serving"}

\* a client sends a request; the server starts a handler for it
HttpRequest ==
    /\ Serving
    /\ req = Nil
    /\ Len(reqLog) < MaxHttp
    /\ \E m \in Methods, p \in Paths :
         req' = [method |-> m, path |-> p, logged |-> FALSE]
    /\ resp' = Nil
    /\ UNCHANGED <<env, reqLog, hung, elog, mainVars, execVars, lisVars,
                   lockVars, shutVars, scmVars>>

\* ServeFiles, the handler on "/":
\* log.Printf("Received request: %s %s", r.Method, r.URL.Path)
HandlerLog ==
    /\ args = "container" /\ Serving
    /\ req # Nil
    /\ ~req.logged
    /\ reqLog' = Append(reqLog, [method |-> req.method, path |-> req.path])
    /\ req' = [req EXCEPT !.logged = TRUE]
    /\ UNCHANGED <<env, resp, hung, elog, mainVars, execVars, lisVars,
                   lockVars, shutVars, scmVars>>

\* http.FileServer(...).ServeHTTP(w, r): in the container after the log line,
\* in the service build (mux.Handle("/", http.FileServer(...))) at once
HandlerServe ==
    /\ Serving
    /\ req # Nil
    /\ args = "container" => req.logged
    /\ LET a == FileServer(server.Root, req) IN
         resp' = [method |-> req.method, path |-> req.path, status |-> a.status,
                  location |-> a.location, body |-> a.body]
    /\ req' = Nil
    /\ UNCHANGED <<env, reqLog, hung, elog, mainVars, execVars, lisVars,
                   lockVars, shutVars, scmVars>>

-----------------------------------------------------------------------------
(* The container build: main and ServeFiles *)

Unset == [set |-> FALSE, val |-> ""]
EnvVal(v) == [set |-> TRUE, val |-> v]

\* os.Getenv: the value, "" when the variable is not present
Getenv(v) == IF v.set THEN v.val ELSE ""

DefaultPort == "8089"
DefaultFolder == "/images"

\* mutant: no default is put in place of an empty value
MutResolve(v, default) == Getenv(v)

\* x := os.Getenv(...); if x == "" { x = default }
Resolve(v, default) == IF Getenv(v) = "" THEN default ELSE Getenv(v)

\* what http.ListenAndServe(":"+port, nil) serves, with the handler of
\* ServeFiles on "/" (no timeouts)
ServeFiles(port, folder) ==
    [Addr |-> <<":", port>>, Root |-> folder,
     ReadTimeout |-> 0, WriteTimeout |-> 0, IdleTimeout |-> 0]

\* main: port and folder from PORT and IMAGE_FOLDER, with their defaults
ContainerEnv ==
    /\ mpc = "start" /\ args = "container"
    /\ config' = [Port |-> Resolve(env.PORT, DefaultPort),
                  Folder |-> Resolve(env.IMAGE_FOLDER, DefaultFolder)]
    /\ elog' = elog
         \o (IF Getenv(env.PORT) = ""
             THEN <<"PORT environment variable not set, using default port">>
             ELSE << >>)
         \o (IF Getenv(env.IMAGE_FOLDER) = ""
             THEN <<"IMAGE_FOLDER environment variable not set, using default folder">>
             ELSE << >>)
    /\ mpc' = "c_stat"
    /\ UNCHANGED <<args, viaScript, cmdErr, cfgFile, server, execVars, lisVars,
                   lockVars, shutVars, scmVars, webVars>>

\* if _, err := os.Stat(folder); os.IsNotExist(err) { log.Fatalf(...) }
ContainerStat ==
    /\ mpc = "c_stat"
    /\ IF Stat(config.Folder) = "notexist"
       THEN Fatal("The folder does not exist")
       ELSE /\ mpc' = "c_listen"
            /\ UNCHANGED cmdErr
    /\ UNCHANGED <<args, viaScript, cfgFile, config, server, elog, execVars,
                   lisVars, lockVars, shutVars, scmVars, webVars>>

\* ServeFiles(port, folder): the handler is registered, "Serving ..." is
\* printed, http.ListenAndServe is entered; log.Fatal when it fails
ContainerListen ==
    /\ mpc = "c_listen"
    /\ server' = ServeFiles(config.Port, config.Folder)
    /\ elog' = Append(elog, "Serving")
    /\ listenCalled' = TRUE
    /\ \/ /\ lerr' = "bind"
          /\ Fatal("Error starting server")
          /\ UNCHANGED listening
       \/ /\ listening' = TRUE
          /\ mpc' = "c_serving"
          /\ UNCHANGED <<lerr, cmdErr>>
    /\ UNCHANGED <<args, viaScript, cfgFile, config, lpc, errChan, execVars,
                   lockVars, shutVars, scmVars, webVars>>

\* http.ListenAndServe returns an error while serving; log.Fatal
ContainerServe ==
    /\ mpc = "c_serving"
    /\ lerr' = "accept"
    /\ listening' = FALSE
    /\ Fatal("Error starting server")
    /\ UNCHANGED <<args, viaScript, cfgFile, config, server, lpc, errChan,
                   listenCalled, elog, execVars, lockVars, shutVars, scmVars,
                   webVars>>

-----------------------------------------------------------------------------
(* main: the debug command and the service path *)

\* case "debug": LoadConfig, createServer, log.Printf
MainDebugLoad ==
    /\ mpc = "start" /\ args = "debug"
    /\ LET r == LoadConfig(cfgFile) IN
         IF r.err # ""
         THEN /\ Fatal(r.err)
              /\ UNCHANGED <<config, server, elog>>
         ELSE /\ config' = r.cfg
              /\ server' = createServer(r.cfg)
              /\ elog' = Append(elog, "Debug mode")
              /\ mpc' = "debug_listen"
              /\ UNCHANGED cmdErr
    /\ UNCHANGED <<args, viaScript, cfgFile, execVars, lisVars, lockVars,
                   shutVars, scmVars>>
    /\ UNCHANGED webVars

\* case "debug": server.ListenAndServe() is entered
MainDebugListen ==
    /\ mpc = "debug_listen"
    /\ listenCalled' = TRUE
    /\ \/ /\ lerr' = "bind"
          /\ Fatal("bind")
          /\ UNCHANGED listening
       \/ /\ listening' = TRUE
          /\ mpc' = "debug_serving"
          /\ UNCHANGED <<lerr, cmdErr>>
    /\ UNCHANGED <<args, viaScript, cfgFile, config, server, lpc, errChan, elog,
                   execVars, lockVars, shutVars, scmVars>>
    /\ UNCHANGED webVars

\* case "debug": server.ListenAndServe() returns an error; log.Fatal
MainDebugServe ==
    /\ mpc = "debug_serving"
    /\ lerr' = "accept"
    /\ listening' = FALSE
    /\ Fatal("accept")
    /\ UNCHANGED <<args, viaScript, cfgFile, config, server, lpc, errChan,
                   listenCalled, elog, execVars, lockVars, shutVars, scmVars>>
    /\ UNCHANGED webVars

\* svc.IsWindowsService()
MainIsService ==
    /\ mpc = "start" /\ args = "service"
    /\ \/ Fatal("Failed to determine if running as service")
       \/ Fatal("This program can only be run as a Windows service or with the debug flag")
       \/ /\ mpc' = "open_elog"
          /\ UNCHANGED cmdErr
    /\ UNCHANGED <<args, viaScript, cfgFile, config, server, elog, execVars,
                   lisVars, lockVars, shutVars, scmVars>>
    /\ UNCHANGED webVars

\* eventlog.Open("ImageServer"); elog.Info("Service starting...")
MainOpenElog ==
    /\ mpc = "open_elog"
    /\ \/ /\ Fatal("Failed to open event log")
          /\ UNCHANGED elog
       \/ /\ elog' = Append(elog, "Service starting...")
          /\ mpc' = "load"
          /\ UNCHANGED cmdErr
    /\ UNCHANGED <<args, viaScript, cfgFile, config, server, execVars, lisVars,
                   lockVars, shutVars, scmVars>>
    /\ UNCHANGED webVars

\* LoadConfig("config.json"); srv := &Service{server: createServer(config), ...}
MainServiceLoad ==
    /\ mpc = "load"
    /\ LET r == LoadConfig(cfgFile) IN
         IF r.err # ""
         THEN /\ elog' = Append(elog, "Failed to load config")
              /\ Fatal(r.err)
              /\ UNCHANGED <<config, server>>
         ELSE /\ config' = r.cfg
              /\ server' = createServer(r.cfg)
              /\ mpc' = "run"
              /\ UNCHANGED <<cmdErr, elog>>
    /\ UNCHANGED <<args, viaScript, cfgFile, execVars, lisVars, lockVars,
                   shutVars, scmVars>>
    /\ UNCHANGED webVars

\* svc.Run("ImageServer", srv): the dispatcher fails, or it calls Execute
MainRun ==
    /\ mpc = "run"
    /\ \/ /\ elog' = Append(elog, "Service failed")
          /\ Fatal("Service failed")
          /\ UNCHANGED pc
       \/ /\ mpc' = "in_run"
          /\ pc' = "start"
          /\ UNCHANGED <<cmdErr, elog>>
    /\ UNCHANGED <<args, viaScript, cfgFile, config, server, ret, ctl, reported,
                   lisVars, lockVars, shutVars, scmVars>>
    /\ UNCHANGED webVars

\* svc.Run returns once Execute has returned; main returns and the process,
\* with the listener goroutine, ends
MainReturn ==
    /\ mpc = "in_run"
    /\ pc = "returned"
    /\ mpc' = "exited"
    /\ UNCHANGED <<args, viaScript, cmdErr, cfgFile, config, server, elog,
                   execVars, lisVars, lockVars, shutVars, scmVars>>
    /\ UNCHANGED webVars

-----------------------------------------------------------------------------
(* The service control manager and the event-log registry *)

\* a registration of the SCM: mgr.Config and the recovery settings
Registration(exe, start, failure) ==
    [name |-> ServiceName, exe |-> exe, startType |-> start, failure |-> failure]

NoRecovery == [reset |-> 0, actions |-> << >>]

\* sc failure ImageServer reset= 86400 actions= restart/60000/restart/60000/restart/60000
ScFailure ==
    [reset |-> 86400,
     actions |-> <<[type |-> "restart", delay |-> 60000],
                   [type |-> "restart", delay |-> 60000],
                   [type |-> "restart", delay |-> 60000]>>]

\* mutant: the service is created without automatic start
MutCreatedService == Registration(ExePath, "StartManual", NoRecovery)

\* m.CreateService("ImageServer", exePath, mgr.Config{StartType: mgr.StartAutomatic, ...})
CreatedService == Registration(ExePath, "StartAutomatic", NoRecovery)

\* a registration made earlier, from another place, since set to manual start
OldService == Registration("C:/old/image_server.exe", "StartManual", NoRecovery)
OtherService == [name |-> "Spooler", exe |-> "C:/windows/spoolsv.exe",
                 startType |-> "StartAutomatic", failure |-> NoRecovery]

Registered(svcs) == \E r \in svcs : r.name = ServiceName
Named(svcs) == {r \in svcs : r.name = ServiceName}

\* mutant: install does not look for an existing service
MutOpenServiceOk(svcs) == FALSE

\* s, err := m.OpenService("ImageServer"); err == nil
OpenServiceOk(svcs) == Registered(svcs)

\* the process ends with status 0; under manage_service.bat install the
\* script goes on to configure the service
Exit0 ==
    /\ mpc' = IF viaScript /\ args = "install" THEN "script_config" ELSE "exited"
    /\ UNCHANGED cmdErr

-----------------------------------------------------------------------------
(* installService, and manage_service.bat install *)

\* eventlog.Remove("ImageServer"), its error ignored
InstallRemoveEventlog ==
    /\ mpc = "start" /\ args = "install"
    /\ \/ eventSrc' = FALSE
       \/ /\ eventSrc
          /\ eventSrc' = eventSrc
    /\ mpc' = "i_connect"
    /\ UNCHANGED <<args, viaScript, cmdErr, cfgFile, config, server, elog,
                   services, svcState, status, rhist, scm0, execVars, lisVars,
                   lockVars, shutVars>>
    /\ UNCHANGED webVars

\* os.Executable(); mgr.Connect()
InstallConnect ==
    /\ mpc = "i_connect"
    /\ \/ Fatal("failed to connect to service manager")
       \/ /\ mpc' = "i_open"
          /\ UNCHANGED cmdErr
    /\ UNCHANGED <<args, viaScript, cfgFile, config, server, elog, execVars,
                   lisVars, lockVars, shutVars, scmVars>>
    /\ UNCHANGED webVars

\* m.OpenService("ImageServer"): err == nil means the service exists
InstallOpen ==
    /\ mpc = "i_open"
    /\ IF OpenServiceOk(services)
       THEN Fatal("service already exists - please remove it first")
       ELSE /\ mpc' = "i_create"
            /\ UNCHANGED cmdErr
    /\ UNCHANGED <<args, viaScript, cfgFile, config, server, elog, execVars,
                   lisVars, lockVars, shutVars, scmVars>>
    /\ UNCHANGED webVars

\* m.CreateService(...): the SCM refuses a name it already holds
InstallCreate ==
    /\ mpc = "i_create"
    /\ \/ /\ Fatal("failed to create service")
          /\ UNCHANGED <<services, svcState>>
       \/ /\ ~Registered(services)
          /\ services' = services \cup {CreatedService}
          /\ svcState' = "Stopped"
          /\ mpc' = "i_eventlog"
          /\ UNCHANGED cmdErr
    /\ UNCHANGED <<args, viaScript, cfgFile, config, server, elog, eventSrc,
                   status, rhist, scm0, execVars, lisVars, lockVars, shutVars>>
    /\ UNCHANGED webVars

\* eventlog.InstallAsEventCreate(...): "registry key already exists" is
\* accepted; on another error s.Delete() and the error is returned
InstallEventlog ==
    /\ mpc = "i_eventlog"
    /\ \/ /\ eventSrc
          /\ Exit0
          /\ UNCHANGED <<eventSrc, services>>
       \/ /\ ~eventSrc
          /\ eventSrc' = TRUE
          /\ Exit0
          /\ UNCHANGED services
       \/ /\ Fatal("failed to install event logger")
          /\ \/ services' = services \ Named(services)
             \/ services' = services
          /\ UNCHANGED eventSrc
    /\ UNCHANGED <<args, viaScript, cfgFile, config, server, elog, svcState,
                   status, rhist, scm0, execVars, lisVars, lockVars, shutVars>>
    /\ UNCHANGED webVars

\* manage_service.bat install, after image_server.exe install ended with 0:
\* sc config ImageServer start= auto; sc failure ImageServer ...
ScriptConfigure ==
    /\ mpc = "script_config"
    /\ services' = (services \ Named(services)) \cup
                   {[r EXCEPT !.startType = "StartAutomatic", !.failure = ScFailure] :
                      r \in Named(services)}
    /\ mpc' = "script_done"
    /\ UNCHANGED <<args, viaScript, cmdErr, cfgFile, config, server, elog,
                   eventSrc, svcState, status, rhist, scm0, execVars, lisVars,
                   lockVars, shutVars>>
    /\ UNCHANGED webVars

-----------------------------------------------------------------------------
(* removeService *)

\* mgr.Connect()
RemoveConnect ==
    /\ mpc = "start" /\ args = "remove"
    /\ \/ Fatal("failed to connect to service manager")
       \/ /\ mpc' = "r_open"
          /\ UNCHANGED cmdErr
    /\ UNCHANGED <<args, viaScript, cfgFile, config, server, elog, execVars,
                   lisVars, lockVars, shutVars, scmVars>>
    /\ UNCHANGED webVars

\* mutant: remove goes on although the service could not be opened
MutRemoveOpenFails(svcs) == FALSE

\* s, err := m.OpenService("ImageServer"); err != nil
RemoveOpenFails(svcs) == ~Registered(svcs)

\* m.OpenService("ImageServer")
RemoveOpen ==
    /\ mpc = "r_open"
    /\ IF RemoveOpenFails(services)
       THEN Fatal("failed to open service")
       ELSE /\ mpc' = "r_query"
            /\ UNCHANGED cmdErr
    /\ UNCHANGED <<args, viaScript, cfgFile, config, server, elog, execVars,
                   lisVars, lockVars, shutVars, scmVars>>
    /\ UNCHANGED webVars

\* mutant: only a Running service is waited for
MutWaitGoesOn(state) == state = "Running"

\* the wait loop goes on while status.State != svc.Stopped
WaitGoesOn(state) == state # "Stopped"

\* status, err := s.Query(); if err == nil && status.State != svc.Stopped
RemoveQuery ==
    /\ mpc = "r_query"
    /\ \/ /\ status' = ""
          /\ rhist' = [rhist EXCEPT !.queryFailed = TRUE]
          /\ mpc' = "r_delete"
       \/ /\ status' = svcState
          /\ mpc' = IF WaitGoesOn(svcState) THEN "r_control" ELSE "r_delete"
          /\ UNCHANGED rhist
    /\ UNCHANGED <<args, viaScript, cmdErr, cfgFile, config, server, elog,
                   services, eventSrc, svcState, scm0, execVars, lisVars,
                   lockVars, shutVars>>
    /\ UNCHANGED webVars

\* _, err = s.Control(svc.Stop)
RemoveControl ==
    /\ mpc = "r_control"
    /\ \/ /\ Fatal("failed to stop service")
          /\ UNCHANGED rhist
       \/ /\ rhist' = [rhist EXCEPT !.stopSent = TRUE]
          /\ mpc' = "r_wait"
          /\ UNCHANGED cmdErr
    /\ UNCHANGED <<args, viaScript, cfgFile, config, server, elog, services,
                   eventSrc, svcState, status, scm0, execVars, lisVars, lockVars,
                   shutVars>>
    /\ UNCHANGED webVars

\* the polls made so far are counted up to MaxPolls; the loop itself has no
\* bound
Polled(n) == IF n < MaxPolls THEN n + 1 ELSE n

\* for status.State != svc.Stopped { time.Sleep; status, err = s.Query();
\* if err != nil { break } }
RemovePoll ==
    /\ mpc = "r_wait"
    /\ WaitGoesOn(status)
    /\ \/ /\ status' = ""
          /\ rhist' = [rhist EXCEPT !.polls = Polled(@), !.queryFailed = TRUE]
          /\ mpc' = "r_delete"
       \/ /\ status' = svcState
          /\ rhist' = [rhist EXCEPT !.polls = Polled(@)]
          /\ mpc' = IF WaitGoesOn(svcState) THEN "r_wait" ELSE "r_delete"
    /\ UNCHANGED <<args, viaScript, cmdErr, cfgFile, config, server, elog,
                   services, eventSrc, svcState, scm0, execVars, lisVars,
                   lockVars, shutVars>>
    /\ UNCHANGED webVars

\* err = s.Delete()
RemoveDelete ==
    /\ mpc = "r_delete"
    /\ \/ /\ Fatal("failed to delete service")
          /\ UNCHANGED <<services, rhist>>
       \/ /\ services' = services \ Named(services)
          /\ rhist' = [rhist EXCEPT !.deleted = TRUE]
          /\ mpc' = "r_eventlog"
          /\ UNCHANGED cmdErr
    /\ UNCHANGED <<args, viaScript, cfgFile, config, server, elog, eventSrc,
                   svcState, status, scm0, execVars, lisVars, lockVars, shutVars>>
    /\ UNCHANGED webVars

\* err = eventlog.Remove("ImageServer"): "registry key does not exist" is
\* accepted, another error is returned
RemoveEventlog ==
    /\ mpc = "r_eventlog"
    /\ \/ /\ eventSrc
          /\ eventSrc' = FALSE
          /\ Exit0
       \/ /\ ~eventSrc
          /\ Exit0
          /\ UNCHANGED eventSrc
       \/ /\ Fatal("failed to remove event logger")
          /\ UNCHANGED eventSrc
    /\ UNCHANGED <<args, viaScript, cfgFile, config, server, elog, services,
                   svcState, status, rhist, scm0, execVars, lisVars, lockVars,
                   shutVars>>
    /\ UNCHANGED webVars

\* the registered service, another process, changes state: it comes up, it
\* obeys a Stop control, it stops by itself
ServiceMoves ==
    /\ args = "remove"
    /\ mpc \notin {"exited"}
    /\ Registered(services)
    /\ \/ svcState = "StartPending" /\ svcState' = "Running"
       \/ svcState = "Running" /\ rhist.stopSent /\ svcState' = "StopPending"
       \/ svcState = "StopPending" /\ svcState' = "Stopped"
       \/ svcState = "Running" /\ svcState' = "Stopped"
    /\ UNCHANGED <<mainVars, elog, services, eventSrc, status, rhist, scm0,
                   execVars, lisVars, lockVars, shutVars>>
    /\ UNCHANGED webVars

-----------------------------------------------------------------------------
(* The specification *)

InitScm ==
    /\ services \in {{OtherService}, {OtherService, OldService}}
    /\ eventSrc \in BOOLEAN
    /\ svcState \in IF ~Registered(services) THEN {""}
                    ELSE IF args = "remove"
                         THEN {"Stopped", "StartPending", "Running", "StopPending"}
                         ELSE {"Stopped"}
    /\ status = ""
    /\ rhist = [stopSent |-> FALSE, polls |-> 0, queryFailed |-> FALSE, deleted |-> FALSE]
    /\ scm0 = [services |-> services, eventSrc |-> eventSrc]

EnvPorts == {Unset, EnvVal(""), EnvVal("9000")}
EnvFolders == {Unset, EnvVal(""), EnvVal("/data"), EnvVal("/gone"), EnvVal("/locked")}

Init ==
    /\ args \in {"install", "remove", "debug", "service", "container"}
    /\ viaScript \in IF args = "install" THEN BOOLEAN ELSE {FALSE}
    /\ mpc = "start"
    /\ cmdErr = ""
    /\ cfgFile \in IF args \in {"debug", "service"} THEN ConfigFiles ELSE {Absent}
    /\ config = Nil
    /\ server = Nil
    /\ pc = "notcalled"
    /\ ret = Nil
    /\ ctl = << >>
    /\ reported = << >>
    /\ lpc = "none"
    /\ lerr = ""
    /\ isRunning = FALSE
    /\ runningMux = "free"
    /\ errChan = << >>
    /\ listening = FALSE
    /\ listenCalled = FALSE
    /\ inShutdown = FALSE
    /\ shutdownCtx = 0
    /\ elog = << >>
    /\ InitScm
    /\ env \in IF args = "container"
               THEN [PORT : EnvPorts, IMAGE_FOLDER : EnvFolders]
               ELSE {[PORT |-> Unset, IMAGE_FOLDER |-> Unset]}
    /\ req = Nil
    /\ resp = Nil
    /\ reqLog = << >>
    /\ hung = FALSE

Next ==
    \/ MainDebugLoad \/ MainDebugListen \/ MainDebugServe
    \/ MainIsService \/ MainOpenElog \/ MainServiceLoad \/ MainRun \/ MainReturn
    \/ ExecuteStart \/ ExecuteSpawn \/ ExecuteRunning \/ ExecuteRecvErr
    \/ ExecuteControl \/ ExecuteStopLock \/ ExecuteStopSet \/ ExecuteStopUnlock
    \/ ExecuteShutdown
    \/ ListenerLock \/ ListenerSet \/ ListenerUnlock \/ ListenerListen
    \/ ListenerServe \/ ListenerReturned \/ ConnHangs
    \/ HttpRequest \/ HandlerLog \/ HandlerServe
    \/ ContainerEnv \/ ContainerStat \/ ContainerListen \/ ContainerServe
    \/ InstallRemoveEventlog \/ InstallConnect \/ InstallOpen \/ InstallCreate
    \/ InstallEventlog \/ ScriptConfigure
    \/ RemoveConnect \/ RemoveOpen \/ RemoveQuery \/ RemoveControl \/ RemovePoll
    \/ RemoveDelete \/ RemoveEventlog \/ ServiceMoves

Spec == Init /\ [][Next]_vars

\* the steps Execute takes by itself (the control requests come from the SCM)
ExecuteStep ==
    \/ ExecuteStart \/ ExecuteSpawn \/ ExecuteRunning \/ ExecuteRecvErr
    \/ ExecuteStopLock \/ ExecuteStopSet \/ ExecuteStopUnlock \/ ExecuteShutdown

\* the steps the listener goroutine takes by itself: all but a failure of the
\* serving listener, which comes from outside
ListenerStep ==
    \/ ListenerLock \/ ListenerSet \/ ListenerUnlock \/ ListenerListen
    \/ (inShutdown /\ ListenerServe) \/ ListenerReturned

\* the steps of removeService
RemoveStep ==
    \/ RemoveConnect \/ RemoveOpen \/ RemoveQuery \/ RemoveControl \/ RemovePoll
    \/ RemoveDelete \/ RemoveEventlog

\* the Go scheduler runs every goroutine that can run: the control loop, the
\* listener goroutine and the remove command each go on while they are not
\* blocked and the process lives
FairSpec ==
    /\ Spec
    /\ WF_vars(ExecuteStep)
    /\ WF_vars(ListenerStep)
    /\ WF_vars(RemoveStep)

-----------------------------------------------------------------------------
(* Properties of the service lifecycle adapter *)

Rank(state) ==
    CASE state = "StartPending" -> 1
      [] state = "Running" -> 2
      [] state = "StopPending" -> 3
      [] state = "Stopped" -> 4
      [] OTHER -> 0

Ordered(seq) == \A i, j \in 1..Len(seq) : i < j => Rank(seq[i]) <= Rank(seq[j])
Range(seq) == {seq[i] : i \in 1..Len(seq)}
Count(seq, x) == Cardinality({i \in 1..Len(seq) : seq[i] = x})
StopTaken == \E i \in 1..Len(ctl) : ctl[i] \in {"Stop", "Shutdown"}
ListenerFailed == lerr \in {"bind", "accept"}

\* C1, as stated: when Execute has returned, the four statuses StartPending,
\* Running, StopPending, Stopped have all been reported, in that order,
\* whatever the control requests and the listener did.
C1_AllFourInOrder ==
    pc = "returned" =>
        /\ Ordered(States(reported))
        /\ Range(States(reported)) = {"StartPending", "Running", "StopPending", "Stopped"}

\* C1, amended: statuses are never reported out of order; StartPending is
\* the first and Running the second (Running possibly repeated by Interrogate
\* echoes); every return of Execute ends the sequence with Stopped; and
\* StopPending is reported, once, exactly when a Stop or Shutdown control was
\* taken: when the control loop receives a listener error Execute returns 1
\* and Stopped follows Running with StopPending skipped.
C1_OrderedStopPendingOnlyOnStop ==
    LET st == States(reported) IN
    /\ Ordered(st)
    /\ Len(st) >= 1 => st[1] = "StartPending"
    /\ Len(st) >= 2 => st[2] = "Running"
    /\ Count(st, "StartPending") <= 1
    /\ Count(st, "StopPending") <= 1
    /\ Count(st, "Stopped") <= 1
    /\ ("StopPending" \in Range(st)) <=> StopTaken
    /\ pc = "returned" =>
          /\ Last(st) = "Stopped"
          /\ {"StartPending", "Running"} \subseteq Range(st)
          /\ ("StopPending" \in Range(st)) <=> (ret.errno = 0)
          /\ ("StopPending" \notin Range(st)) <=> (ret.errno = 1)

\* C1 witness: Execute returned 1 on a listener error after an Interrogate,
\* with Stopped reported and StopPending skipped
C1_Witness ==
    /\ pc = "returned" /\ ret.errno = 1
    /\ ctl = <<"Interrogate">>
    /\ States(reported) = <<"StartPending", "Running", "Running", "Stopped">>

\* C2: once StopPending has been reported no Running status is reported
\* afterwards, and Stopped, reported when Execute returns, is the last status:
\* nothing is reported after it.
C2_RunningNeverAfterStopPending ==
    LET st == States(reported) IN
    /\ \A i, j \in 1..Len(st) : (i < j /\ st[i] = "StopPending") => st[j] # "Running"
    /\ \A i \in 1..Len(st) : st[i] = "Stopped" => i = Len(st)
    /\ pc = "returned" <=> "Stopped" \in Range(st)

\* C2 witness: a stop whose Shutdown ran out of time, after the process ended
C2_Witness ==
    /\ mpc = "exited" /\ pc = "returned"
    /\ "Error during shutdown" \in Range(elog)
    /\ States(reported) = <<"StartPending", "Running", "Running", "StopPending", "Stopped">>

\* C3, as stated: when a Stop or Shutdown control was received while Running,
\* then at the moment Execute returns isRunning is false, the listener's
\* shutdown has been invoked with the 5-second deadline, and Execute returns 0
\* (whether or not the shutdown met its deadline).
C3_StopLeavesNotRunning ==
    [][(pc # "returned" /\ pc' = "returned" /\ StopTaken')
          => /\ isRunning' = FALSE
             /\ inShutdown' /\ shutdownCtx' = ShutdownTimeout
             /\ ret' = [ssec |-> FALSE, errno |-> 0]]_vars

\* C4, as stated: once the listener has put an error on the error channel,
\* Execute returns 1, without StopPending reported and without the listener's
\* graceful shutdown invoked; it never returns 0 with a listener error pending.
C4_ListenerErrorAlwaysFails ==
    [][(pc # "returned" /\ pc' = "returned" /\ errChan # << >>)
          => /\ ret'.errno = 1
             /\ "StopPending" \notin Range(States(reported'))
             /\ ~inShutdown']_vars

\* C4, amended: whenever the control loop receives the listener's error from
\* the error channel, which it does only while selecting in the Running loop,
\* Execute returns at once with failure status 1, without reporting StopPending
\* and without invoking the listener's shutdown; and Execute returns 1 in no
\* other case.  (A listener error that is pending together with a Stop or
\* Shutdown the select takes first, or raised after one was taken, is never
\* received, and Execute returns 0.)
C4_ReceivedErrorFails ==
    [][/\ (Len(errChan') < Len(errChan)) =>
             /\ pc = "loop" /\ pc' = "returned"
             /\ ret' = [ssec |-> FALSE, errno |-> 1]
             /\ reported' = Append(reported, StoppedStatus(1))
             /\ "StopPending" \notin Range(States(reported'))
             /\ ~inShutdown' /\ shutdownCtx' = 0
             /\ ListenerFailed
       /\ (pc' = "returned" /\ ret'.errno # 0) =>
             /\ errChan' = << >> /\ ListenerFailed'
             /\ ret'.errno = 1
             /\ ~StopTaken' /\ ~inShutdown'
             /\ "StopPending" \notin Range(States(reported'))
       /\ (pc' = "returned" /\ ret'.errno = 0) => StopTaken' /\ inShutdown']_vars

\* C4 witness: the bind failed, the control loop received the error after an
\* Interrogate and returned 1
C4_Witness ==
    /\ pc = "returned" /\ ret.errno = 1 /\ lerr = "bind"
    /\ ctl = <<"Interrogate">> /\ ~inShutdown

\* C5: an Interrogate request, which is received only between the Running
\* report and the StopPending report, leaves the lifecycle position, isRunning,
\* the lock and the listener as they are, and is answered with the current
\* status, a Running status, echoed back.
C5_InterrogateEchoes ==
    [][(Len(ctl') = Len(ctl) + 1 /\ Last(ctl') = "Interrogate")
          => /\ pc = "loop" /\ pc' = "loop"
             /\ "Running" \in Range(States(reported))
             /\ "StopPending" \notin Range(States(reported))
             /\ reported' = Append(reported, Last(reported))
             /\ Last(reported') = RunningStatus
             /\ UNCHANGED <<ret, isRunning, runningMux, inShutdown, shutdownCtx,
                            lpc, lerr, errChan, listening, listenCalled, server>>]_vars

\* C5 witness: three Interrogates in a row, each echoed, the loop still waiting
C5_Witness ==
    /\ pc = "loop"
    /\ ctl = <<"Interrogate", "Interrogate", "Interrogate">>
    /\ States(reported) = <<"StartPending", "Running", "Running", "Running", "Running">>

\* C6: isRunning is written only by the holder of runningMux (the flag is
\* never read), a path never asks for the lock while holding it, the holder is
\* always inside a critical section of straight-line steps whose next step can
\* be taken, and a path waiting for the lock waits for a holder that can move:
\* the control loop and the listener path cannot deadlock on the lock.
C6_LockDiscipline ==
    /\ pc = "stop_set" => runningMux = "ctl"
    /\ lpc = "l_set" => runningMux = "lis"
    /\ runningMux = "ctl" <=> pc \in {"stop_set", "stop_unlock"}
    /\ runningMux = "lis" <=> lpc \in {"l_set", "l_unlock"}
    /\ pc = "stop_lock" => runningMux # "ctl"
    /\ lpc = "l_lock" => runningMux # "lis"
    /\ runningMux = "ctl" => ENABLED (ExecuteStopSet \/ ExecuteStopUnlock)
    /\ (runningMux = "lis" /\ mpc # "exited") => ENABLED (ListenerSet \/ ListenerUnlock)
    /\ (pc = "stop_lock" /\ runningMux # "free") => ENABLED (ListenerSet \/ ListenerUnlock)
    /\ (lpc = "l_lock" /\ runningMux # "free") => ENABLED (ExecuteStopSet \/ ExecuteStopUnlock)

\* C6 witness: the control loop waits for the lock while the listener path,
\* started late, holds it
C6_Witness ==
    /\ pc = "stop_lock" /\ runningMux = "lis" /\ lpc = "l_set"

-----------------------------------------------------------------------------
(* Properties of configuration loading *)

NonEmptyString(v) == v.kind = "string" /\ v.val # ""

\* a configuration with a non-empty port and an existing folder
ValidFile(file) ==
    /\ file.kind = "json"
    /\ NonEmptyString(file.port)
    /\ NonEmptyString(file.folder) /\ Stat(file.folder.val) = "ok"

\* absent, malformed, empty port, empty folder or non-existent folder
InvalidFile(file) ==
    \/ file.kind \in {"absent", "garbage"}
    \/ /\ file.kind = "json"
       /\ \/ file.port.kind = "number" \/ file.folder.kind = "number"
          \/ ~NonEmptyString(file.port)
          \/ ~NonEmptyString(file.folder)
          \/ Stat(file.folder.val) = "notexist"

\* main has called LoadConfig and gone on
Loaded ==
    \/ args = "debug" /\ mpc # "start"
    \/ args = "service" /\ mpc \in {"run", "in_run"}
    \/ args = "service" /\ mpc = "exited" /\ "Service starting..." \in Range(elog)

ConfigErrors ==
    {"failed to open config file", "failed to decode config", "port cannot be empty",
     "folder cannot be empty", "folder does not exist"}

\* C7: for a configuration file with a non-empty port and an existing folder
\* LoadConfig returns the Config holding the parsed values; for a file that is
\* absent, malformed, or has an empty port, an empty folder or a folder that
\* does not exist, LoadConfig fails, the process ends with that error, and in
\* the debug path as in the service path ListenAndServe is never called.
C7_LoadConfig ==
    (args \in {"debug", "service"}) =>
        /\ (ValidFile(cfgFile) /\ Loaded) =>
              /\ config = [Port |-> cfgFile.port.val, Folder |-> cfgFile.folder.val]
              /\ cmdErr \notin ConfigErrors
        /\ InvalidFile(cfgFile) =>
              /\ config = Nil /\ server = Nil
              /\ ~listenCalled /\ ~listening
              /\ lpc = "none" /\ pc = "notcalled"
              /\ Loaded => (mpc = "exited" /\ cmdErr \in ConfigErrors)

\* C7 witness: the service path called LoadConfig on a configuration whose
\* folder does not exist and ended with that error
C7_Witness ==
    /\ args = "service" /\ Loaded /\ mpc = "exited"
    /\ cfgFile = [kind |-> "json", port |-> JStr("8089"), folder |-> JStr("C:/gone")]
    /\ cmdErr = "folder does not exist"

-----------------------------------------------------------------------------
(* Properties of install and remove *)

AlreadyInstalled == "service already exists - please remove it first"

InstallSucceeded ==
    /\ args = "install" /\ cmdErr = ""
    /\ mpc \in {"exited", "script_done"}

\* C8: install, when a service named ImageServer is already registered, ends
\* with the "already exists" error as soon as it has looked the service up
\* (or earlier, when the service manager cannot be reached); the registered
\* services stay what they were: no second registration, the existing one
\* not overwritten.
C8_InstallAlreadyInstalled ==
    (args = "install" /\ Registered(scm0.services)) =>
        /\ services = scm0.services
        /\ Cardinality(Named(services)) = 1
        /\ mpc \in {"start", "i_connect", "i_open", "exited"}
        /\ mpc = "exited" =>
              cmdErr \in {AlreadyInstalled, "failed to connect to service manager"}
        /\ cmdErr = "failed to connect to service manager" => mpc = "exited"

\* C8 witness: install ended with "already exists", the old registration kept
C8_Witness ==
    /\ args = "install" /\ mpc = "exited" /\ cmdErr = AlreadyInstalled
    /\ services = {OtherService, OldService}

HasRestartPolicy(r) ==
    /\ r.failure.reset = 86400
    /\ Len(r.failure.actions) >= 1
    /\ \A i \in 1..Len(r.failure.actions) :
          r.failure.actions[i] = [type |-> "restart", delay |-> 60000]

\* C9, as stated: after a successful install a service named ImageServer is
\* registered for the current executable with automatic start, with the
\* restart-on-failure policy (restart after 60 s, reset after 24 h), and the
\* event-log source is registered.
C9_InstallConfiguresRestart ==
    InstallSucceeded =>
        /\ Cardinality(Named(services)) = 1
        /\ \A r \in Named(services) :
              /\ r.exe = ExePath /\ r.startType = "StartAutomatic"
              /\ HasRestartPolicy(r)
        /\ eventSrc

\* C9, amended: after a successful install a service named ImageServer is
\* registered for the current executable with automatic start and the
\* event-log source is registered; the restart-on-failure policy (restart after
\* 60 s, reset after 24 h) is configured when the install went through
\* manage_service.bat install, whose sc failure command sets it, and is not
\* configured by image_server.exe install alone.
C9_InstallRegisters ==
    InstallSucceeded =>
        /\ Cardinality(Named(services)) = 1
        /\ \A r \in Named(services) :
              /\ r.exe = ExePath /\ r.startType = "StartAutomatic"
              /\ viaScript => HasRestartPolicy(r)
              /\ ~viaScript => r.failure = NoRecovery
        /\ eventSrc
        /\ services \ Named(services) = scm0.services

\* C9 witness: an install through the script, over a stale event-log source
\* that could not be removed first
C9_Witness ==
    /\ InstallSucceeded /\ viaScript /\ mpc = "script_done"
    /\ scm0.eventSrc /\ eventSrc

\* C10, as stated: remove, when it has sent the Stop control, deletes the
\* registration only after a status poll has shown the service Stopped.
C10_DeleteOnlyAfterStopped ==
    (args = "remove" /\ rhist.deleted /\ rhist.stopSent) => status = "Stopped"

\* C10, amended: remove, when the service is registered and a status query
\* shows it not Stopped, sends it a Stop control (and gives up, deleting
\* nothing, when that fails); it deletes the registration only after a status
\* query has shown the service Stopped or a status query has failed (a failed
\* first query skips the stop, a failed poll ends the wait); the event-log
\* source is removed only after the registration has been deleted.
C10_DeleteAfterStoppedOrQueryError ==
    [][(args = "remove") =>
          /\ (mpc = "r_query" /\ status' \notin {"", "Stopped"}) => mpc' = "r_control"
          /\ (mpc = "r_control" /\ mpc' # mpc) =>
                \/ rhist'.stopSent /\ mpc' = "r_wait"
                \/ mpc' = "exited" /\ cmdErr' = "failed to stop service"
                                   /\ services' = scm0.services
          /\ (services' # services) =>
                /\ status = "Stopped" \/ rhist.queryFailed
                /\ rhist.stopSent => rhist.polls >= 1
                /\ ~Registered(services') /\ rhist'.deleted
          /\ (eventSrc' # eventSrc) => (rhist.deleted /\ ~Registered(services))]_vars

\* C10 witness: Stop was sent to a running service, the second poll showed
\* it Stopped, the registration and then the event-log source were removed
C10_Witness ==
    /\ args = "remove" /\ mpc = "exited" /\ cmdErr = ""
    /\ rhist = [stopSent |-> TRUE, polls |-> 2, queryFailed |-> FALSE, deleted |-> TRUE]
    /\ status = "Stopped" /\ scm0.eventSrc /\ ~eventSrc /\ ~Registered(services)

NotInstalled == "failed to open service"

\* C11: remove, when no service named ImageServer is registered, ends with
\* the "failed to open service" error as soon as it has looked the service up
\* (or earlier, when the service manager cannot be reached), and changes
\* nothing: no Stop is sent, nothing is deleted, the registered services and
\* the event-log source registration stay what they were.
C11_RemoveNotInstalled ==
    (args = "remove" /\ ~Registered(scm0.services)) =>
        /\ services = scm0.services
        /\ eventSrc = scm0.eventSrc
        /\ svcState = ""
        /\ ~rhist.stopSent /\ ~rhist.deleted /\ rhist.polls = 0
        /\ mpc \in {"start", "r_open", "exited"}
        /\ mpc = "exited" =>
              cmdErr \in {NotInstalled, "failed to connect to service manager"}
        /\ cmdErr = NotInstalled => mpc = "exited"

\* C11 witness: remove ended with "failed to open service", the event-log
\* source still registered
C11_Witness ==
    /\ args = "remove" /\ mpc = "exited" /\ cmdErr = NotInstalled
    /\ services = {OtherService} /\ eventSrc /\ scm0.eventSrc

\* C17: an install call that fails leaves the registered services and the
\* event-log source registration exactly as they were before the call.
\* The code does not: eventlog.Remove runs first (main.go:225), before the
\* service is looked up, and the s.Delete() that undoes CreateService after a
\* failed event-log registration has its result ignored (main.go:266).
C17_FailedInstallChangesNothing ==
    (args = "install" /\ mpc = "exited" /\ cmdErr # "") =>
        /\ services = scm0.services
        /\ eventSrc = scm0.eventSrc

\* C18: a control request other than Interrogate, Stop and Shutdown, taken
\* while Running, reports no status, leaves the lifecycle state, isRunning,
\* the lock, the listener and the return value as they were, and the control
\* loop is back at its select; and every status Execute sends on changes (all
\* but the Stopped status svc.Run reports after the return) declares Stop and
\* Shutdown as the only accepted controls.
C18_OtherControlIgnored ==
    /\ [][(Len(ctl') = Len(ctl) + 1
             /\ Last(ctl') \notin {"Interrogate", "Stop", "Shutdown"})
          => /\ pc = "loop" /\ pc' = "loop"
             /\ Last(reported).State = "Running"
             /\ reported' = reported
             /\ UNCHANGED <<ret, isRunning, runningMux, listening, listenCalled,
                            lpc, lerr, errChan, inShutdown, shutdownCtx>>]_vars
    /\ [](\A i \in DOMAIN reported :
            reported[i].State # "Stopped" =>
                reported[i].Accepts = {"Stop", "Shutdown"})

\* C18 witness: a Pause request was the last one taken, the service is
\* listening and the loop waits for the next event
C18_Witness ==
    /\ ctl # << >> /\ Last(ctl) = "Pause"
    /\ pc = "loop" /\ listening /\ isRunning
    /\ Last(reported) = RunningStatus

-----------------------------------------------------------------------------
(* Properties of the static file responder and of the container build *)

\* the answer the claim expects for a GET: 200 with the file's bytes for a
\* regular file, 404 for a path at which nothing exists
Answered(r) ==
    LET n == Node(server.Root, r.path) IN
    /\ n.kind = "file" => r.status = 200 /\ r.body = n.bytes
    /\ n.kind = "notexist" => r.status = 404

Resolved == args = "container" /\ config # Nil

\* the container stops at a folder that does not exist: nothing is listened on
StopsAtMissingFolder ==
    (Resolved /\ Stat(config.Folder) = "notexist") =>
        /\ ~listenCalled /\ ~listening /\ server = Nil
        /\ mpc \in {"c_stat", "exited"}
        /\ mpc = "exited" => cmdErr = "The folder does not exist"

\* from ServeFiles on, the listener is the one of the resolved port and folder
ServesResolved ==
    (Resolved /\ listenCalled) =>
        /\ server.Addr = <<":", config.Port>>
        /\ server.Root = config.Folder

\* C13 as stated: port 8089 when PORT is unset and folder /images when
\* IMAGE_FOLDER is unset, otherwise the values of the variables; a resolved
\* folder that does not exist ends the process before the listener starts.
\* Violated: a variable that is set to the empty string is not used, the
\* default is.
C13_DefaultsWhenUnset ==
    /\ Resolved =>
         /\ config.Port = IF env.PORT.set THEN env.PORT.val ELSE "8089"
         /\ config.Folder = IF env.IMAGE_FOLDER.set THEN env.IMAGE_FOLDER.val
                            ELSE "/images"
    /\ StopsAtMissingFolder
    /\ ServesResolved

\* C13, amended: port 8089 when PORT is unset or empty and folder /images
\* when IMAGE_FOLDER is unset or empty, otherwise the values of the
\* variables; a resolved folder that does not exist ends the process before
\* the listener starts.
C13_DefaultsWhenUnsetOrEmpty ==
    /\ Resolved =>
         /\ config.Port = IF env.PORT.set /\ env.PORT.val # ""
                          THEN env.PORT.val ELSE "8089"
         /\ config.Folder = IF env.IMAGE_FOLDER.set /\ env.IMAGE_FOLDER.val # ""
                            THEN env.IMAGE_FOLDER.val ELSE "/images"
    /\ StopsAtMissingFolder
    /\ ServesResolved

\* C13 witness: with PORT unset and IMAGE_FOLDER empty the container listens
\* on 8089 and serves /images
C13_Witness ==
    /\ args = "container" /\ listening
    /\ env.PORT = Unset /\ env.IMAGE_FOLDER = EnvVal("")
    /\ server.Addr = <<":", "8089">> /\ server.Root = "/images"

\* C14: for every request the static file responder has served, in the
\* service build and in the container build, the log line with the request's
\* method and path was written first.  The service build writes no such line:
\* createServer puts http.FileServer on "/" without any logging handler
\* (main.go:140).
C14_LoggedBeforeServed ==
    resp # Nil =>
        /\ reqLog # << >>
        /\ Last(reqLog) = [method |-> resp.method, path |-> resp.path]

-----------------------------------------------------------------------------
(* Termination *)

\* C15: once a Stop or Shutdown control has been taken (which happens only
\* while Running), Execute returns, also when a connection in flight never
\* becomes idle: Shutdown gives up at its deadline, that is only logged, and
\* nothing after it blocks.
C15_StopLeadsToReturn ==
    /\ StopTaken ~> (pc = "returned" /\ ret = [ssec |-> FALSE, errno |-> StopExitCode])
    /\ [](StopTaken => shutdownCtx = ShutdownTimeout)

\* C15 witness: Execute has returned after Stop although a connection hung;
\* the timeout of Shutdown is in the log
C15_Witness ==
    /\ StopTaken /\ hung /\ pc = "returned"
    /\ Count(elog, "Error during shutdown") = 1
    /\ Last(elog) = "Service stopped successfully"

\* C16: a remove call that has sent Stop returns once the service is Stopped
\* or a status query has failed; and the wait loop is left in no other way
\* than by a poll that sees Stopped or fails.
C16_RemoveReturns ==
    /\ (args = "remove" /\ rhist.stopSent
          /\ (svcState = "Stopped" \/ rhist.queryFailed)) ~> (mpc = "exited")
    /\ [][(mpc = "r_wait" /\ mpc' # "r_wait")
          => /\ rhist'.polls = Polled(rhist.polls)
             /\ status' = "Stopped" \/ rhist'.queryFailed]_vars

\* C16 witness: remove has returned after its wait loop polled more than once
\* and then saw the service Stopped
C16_Witness ==
    /\ args = "remove" /\ mpc = "exited" /\ cmdErr = ""
    /\ rhist.stopSent /\ rhist.polls >= 2 /\ ~rhist.queryFailed
    /\ status = "Stopped" /\ rhist.deleted

\* what the listener goroutine does with errChan: one send at most, made when
\* the channel is empty, of an error other than ErrServerClosed, as its last
\* step; whenever it is about to send, the channel has room
SendsOnceWithoutBlocking ==
    /\ [][errChan' # errChan /\ errChan' # << >>
          => /\ errChan = << >> /\ errChan' = <<lerr>>
             /\ lerr \in {"bind", "accept"}
             /\ lpc = "l_returned" /\ lpc' = "l_done"]_vars
    /\ [][lpc = "l_done" => lpc' = "l_done"]_vars
    /\ [](lpc \in {"l_lock", "l_set", "l_unlock", "l_listen", "l_serving",
                   "l_returned"} => errChan = << >>)
    /\ [](lerr = "ErrServerClosed" =>
             errChan = << >> /\ "HTTP server error" \notin Range(elog))

\* C19 as stated: once ListenAndServe has returned, the listener goroutine
\* always runs to its end.  Violated: when Execute has returned after Stop,
\* svc.Run and main return and the process ends, whether or not the goroutine
\* has got past its last statements.
C19_ListenerRunsToCompletion ==
    /\ SendsOnceWithoutBlocking
    /\ (lpc = "l_returned") ~> (lpc = "l_done")

\* C19, amended: once ListenAndServe has returned, the listener goroutine
\* runs to its end unless the process ends first; it sends at most one error
\* on errChan, the send never blocks (also after the control loop has
\* returned), and ErrServerClosed is never sent.
C19_ListenerCompletesOrProcessEnds ==
    /\ SendsOnceWithoutBlocking
    /\ (lpc = "l_returned") ~> (lpc = "l_done" \/ mpc = "exited")

\* C19 witness: the goroutine is done and its error sits in errChan, Execute
\* having returned after Stop: nobody will receive it
C19_Witness ==
    /\ StopTaken /\ pc = "returned" /\ ret.errno = StopExitCode
    /\ lpc = "l_done" /\ errChan = <<"accept">>

====
